---- MODULE Spec2Model ----
(***************************************************************************)
(* Model of the amount arithmetic of solana-kit:                           *)
(*   src/src/utils/amountMath.ts  toBigInt, applyBps, splitAmountByBps,     *)
(*                                isMultipleOfStep        (bigint based)    *)
(*   src/src/utils/formatting.ts  formatTokenAmount, parseTokenAmount       *)
(*                                                        (bn.js based)     *)
(*                                                                         *)
(* The library is stateless.  The state machine is a caller: from "idle"   *)
(* it calls one exported function with arguments drawn from bounded sets,  *)
(* the call runs to completion (a value or a thrown error) and the caller  *)
(* goes back to "idle".                                                    *)
(*                                                                         *)
(* JavaScript values are modelled by what the functions read of them:      *)
(*   a string is a sequence of one-character strings, <<"1", ".", "5">>;   *)
(*   a number is num/den with den = 1 (an integer), den = 2 (a half) or    *)
(*     den = 0 (NaN);                                                      *)
(*   a bigint or a BN is an integer.                                       *)
(* An outcome is Ok(v), the value returned, or Throw(e), e naming the      *)
(* exception: the message of an Error the source throws, or the class of   *)
(* an exception thrown by BigInt() or by bn.js.  bn.js is taken at 5.2.x,  *)
(* the line @coral-xyz/anchor depends on: its string constructor asserts   *)
(* 'Invalid character' on a character that is no digit of the base.        *)
(***************************************************************************)
EXTENDS Integers, Sequences, FiniteSets, TLC

VARIABLES pc, op, args, out, tx, log, builderCtx, sim

vars == <<pc, op, args, out, tx, log, builderCtx, sim>>

(***************************************************************************)
(* Bounds of the model.                                                    *)
(***************************************************************************)
MaxLen == 4
MaxDecimals == 3
MaxAmount == 40
MaxFormatAmount == 1200

(***************************************************************************)
(* Program constants.                                                      *)
(***************************************************************************)
USDC_DECIMALS == 6
BPS_DENOMINATOR == 10000
BPS_LIMIT == 10000

(***************************************************************************)
(* Outcomes.                                                               *)
(***************************************************************************)
Ok(v) == [ok |-> TRUE, val |-> v, err |-> "none"]

Throw(e) == [ok |-> FALSE, val |-> "none", err |-> e]

(***************************************************************************)
(* JavaScript values.                                                      *)
(***************************************************************************)
BigIntV(n) == [t |-> "bigint", v |-> n]

NumberV(n, d) == [t |-> "number", num |-> n, den |-> d]

IntV(n) == NumberV(n, 1)

NaN == NumberV(0, 0)

StringV(s) == [t |-> "string", s |-> s]

IsNaN(x) == x.den = 0

\* x < c and x > c for a number x and an integer c; false for NaN
NumLt(x, c) == ~IsNaN(x) /\ x.num < c * x.den

NumGt(x, c) == ~IsNaN(x) /\ x.num > c * x.den

NumIsInteger(x) == ~IsNaN(x) /\ x.num % x.den = 0

(***************************************************************************)
(* Integer division as bigint "/" and BN.div do it (toward zero), and the  *)
(* remainder as bigint "%" and BN.mod do it (sign of the dividend).        *)
(* TLA+'s \div rounds toward minus infinity.  b > 0.                       *)
(***************************************************************************)
TruncDiv(a, b) == IF a >= 0 THEN a \div b ELSE -((-a) \div b)

TruncRem(a, b) == a - b * TruncDiv(a, b)

\* Math.trunc of a number that is not NaN
MathTrunc(x) == TruncDiv(x.num, x.den)

RECURSIVE Pow10(_)
Pow10(d) == IF d = 0 THEN 1 ELSE 10 * Pow10(d - 1)

(***************************************************************************)
(* Characters and strings.                                                 *)
(***************************************************************************)
DigitChars == <<"0", "1", "2", "3", "4", "5", "6", "7", "8", "9">>

HexLower == <<"a", "b", "c", "d", "e", "f">>

HexUpper == <<"A", "B", "C", "D", "E", "F">>

IsDigit(c) == \E i \in 1..10 : DigitChars[i] = c

DigitVal(c) == (CHOOSE i \in 1..10 : DigitChars[i] = c) - 1

IsHexDigit(c) ==
    \/ IsDigit(c)
    \/ \E i \in 1..6 : HexLower[i] = c \/ HexUpper[i] = c

HexVal(c) ==
    IF IsDigit(c) THEN DigitVal(c)
    ELSE 9 + (CHOOSE i \in 1..6 : HexLower[i] = c \/ HexUpper[i] = c)

\* the white space and line terminators of JavaScript (trim, \s and
\* BigInt's StrWhiteSpaceChar), 25 code units.  Nine can be written in a
\* string of this module: space, tab, LF, FF, CR, and then VT, U+00A0,
\* U+1680 and U+FEFF written as themselves.
WrittenWhiteSpace ==
    {" ", "\t", "\n", "\f", "\r", "", " ", " ", "﻿"}

\* the sixteen that cannot be written in a string here: U+2000 to U+200A,
\* U+2028, U+2029, U+202F, U+205F and U+3000.  Such a code unit is held in
\* a string of the model by its name, as one element of the sequence.
NamedWhiteSpace ==
    {"U+2000", "U+2001", "U+2002", "U+2003", "U+2004", "U+2005", "U+2006",
     "U+2007", "U+2008", "U+2009", "U+200A", "U+2028", "U+2029", "U+202F",
     "U+205F", "U+3000"}

WhiteSpace == WrittenWhiteSpace \cup NamedWhiteSpace

IsWhite(c) == c \in WhiteSpace

Range(s) == {s[i] : i \in 1..Len(s)}

AllDigits(s) == \A i \in 1..Len(s) : IsDigit(s[i])

Front(s) == SubSeq(s, 1, Len(s) - 1)

Last(s) == s[Len(s)]

\* the value of a string of digits in a radix; the empty string is 0
RECURSIVE DigitsValue(_, _)
DigitsValue(s, radix) ==
    IF s = <<>> THEN 0
    ELSE DigitsValue(Front(s), radix) * radix + HexVal(Last(s))

\* the decimal digits of n >= 0, "0" for 0
RECURSIVE NatToString(_)
NatToString(n) ==
    IF n < 10 THEN <<DigitChars[n + 1]>>
    ELSE NatToString(n \div 10) \o <<DigitChars[(n % 10) + 1]>>

\* BigInt.prototype.toString / BN.prototype.toString(10)
IntToString(n) == IF n < 0 THEN <<"-">> \o NatToString(-n) ELSE NatToString(n)

\* String.prototype.trim
RECURSIVE TrimStart(_)
TrimStart(s) ==
    IF s # <<>> /\ IsWhite(Head(s)) THEN TrimStart(Tail(s)) ELSE s

RECURSIVE TrimEnd(_)
TrimEnd(s) ==
    IF s # <<>> /\ IsWhite(Last(s)) THEN TrimEnd(Front(s)) ELSE s

Trim(s) == TrimEnd(TrimStart(s))

\* String.prototype.includes(".")
IncludesDot(s) == \E i \in 1..Len(s) : s[i] = "."

(***************************************************************************)
(* BigInt(x).                                                              *)
(***************************************************************************)
\* BigInt(string): StringToBigInt.  White space around the literal is
\* dropped, the empty literal is 0n, a decimal literal may carry one sign,
\* a 0x / 0o / 0b literal may not; anything else is a SyntaxError.
RadixOf(c) ==
    IF c \in {"x", "X"} THEN 16
    ELSE IF c \in {"o", "O"} THEN 8
    ELSE IF c \in {"b", "B"} THEN 2
    ELSE 0

AllInRadix(s, radix) ==
    \A i \in 1..Len(s) : IsHexDigit(s[i]) /\ HexVal(s[i]) < radix

StringToBigInt(str) ==
    LET t == Trim(str) IN
    IF t = <<>> THEN Ok(0)
    ELSE IF AllDigits(t) THEN Ok(DigitsValue(t, 10))
    ELSE IF Head(t) \in {"+", "-"} /\ Len(t) > 1 /\ AllDigits(Tail(t))
        THEN Ok(IF Head(t) = "-" THEN -DigitsValue(Tail(t), 10)
                ELSE DigitsValue(Tail(t), 10))
    ELSE IF /\ Len(t) > 2
            /\ t[1] = "0"
            /\ RadixOf(t[2]) # 0
            /\ AllInRadix(SubSeq(t, 3, Len(t)), RadixOf(t[2]))
        THEN Ok(DigitsValue(SubSeq(t, 3, Len(t)), RadixOf(t[2])))
    ELSE Throw("SyntaxError")

\* BigInt(number): a RangeError unless the number is an integer
NumberToBigInt(x) ==
    IF NumIsInteger(x) THEN Ok(x.num \div x.den) ELSE Throw("RangeError")

(***************************************************************************)
(* amountMath.ts                                                           *)
(***************************************************************************)
toBigInt(value) ==
    IF value.t = "bigint" THEN Ok(value.v)
    ELSE IF value.t = "number"
        THEN IF IsNaN(value) THEN Throw("RangeError")
             ELSE Ok(MathTrunc(value))
    ELSE LET trimmed == Trim(value.s) IN
         IF IncludesDot(trimmed)
            THEN Throw("toBigInt: cannot parse decimal string")
         ELSE StringToBigInt(trimmed)

\* applyBps with the amount converted before the range of bps is looked at
applyBps_ConvertFirst(amount, bps) ==
    LET value == toBigInt(amount) IN
    IF ~value.ok THEN value
    ELSE IF NumLt(bps, 0) \/ NumGt(bps, BPS_LIMIT)
        THEN Throw("bps must be between 0 and 10_000")
    ELSE LET b == NumberToBigInt(bps) IN
         IF ~b.ok THEN b
         ELSE Ok(TruncDiv(value.val * b.val, BPS_DENOMINATOR))

\* applyBps dividing before it multiplies
applyBps_DivideFirst(amount, bps) ==
    IF NumLt(bps, 0) \/ NumGt(bps, BPS_LIMIT)
        THEN Throw("bps must be between 0 and 10_000")
    ELSE LET value == toBigInt(amount) IN
         IF ~value.ok THEN value
         ELSE LET b == NumberToBigInt(bps) IN
              IF ~b.ok THEN b
              ELSE Ok(TruncDiv(value.val, BPS_DENOMINATOR) * b.val)

applyBps(amount, bps) ==
    IF NumLt(bps, 0) \/ NumGt(bps, BPS_LIMIT)
        THEN Throw("bps must be between 0 and 10_000")
    ELSE LET value == toBigInt(amount) IN
         IF ~value.ok THEN value
         ELSE LET b == NumberToBigInt(bps) IN
              IF ~b.ok THEN b
              ELSE Ok(TruncDiv(value.val * b.val, BPS_DENOMINATOR))

\* splitAmountByBps taking the seller's share as its own floor
splitAmountByBps_BothFloor(total, buyerBps) ==
    IF NumLt(buyerBps, 0) \/ NumGt(buyerBps, BPS_LIMIT)
        THEN Throw("buyerBps must be between 0 and 10_000")
    ELSE LET value == toBigInt(total) IN
         IF ~value.ok THEN value
         ELSE LET buyer == applyBps(BigIntV(value.val), buyerBps) IN
              IF ~buyer.ok THEN buyer
              ELSE LET rest == IntV(BPS_DENOMINATOR - buyerBps.num)
                       seller == applyBps(BigIntV(value.val), rest)
                   IN  Ok([buyer |-> buyer.val, seller |-> seller.val])

\* splitAmountByBps handing the buyer what is left of the seller's bps
splitAmountByBps_SellerFirst(total, buyerBps) ==
    IF NumLt(buyerBps, 0) \/ NumGt(buyerBps, BPS_LIMIT)
        THEN Throw("buyerBps must be between 0 and 10_000")
    ELSE LET value == toBigInt(total) IN
         IF ~value.ok THEN value
         ELSE LET seller == applyBps(BigIntV(value.val), buyerBps) IN
              IF ~seller.ok THEN seller
              ELSE Ok([buyer |-> value.val - seller.val, seller |-> seller.val])

splitAmountByBps(total, buyerBps) ==
    IF NumLt(buyerBps, 0) \/ NumGt(buyerBps, BPS_LIMIT)
        THEN Throw("buyerBps must be between 0 and 10_000")
    ELSE LET value == toBigInt(total) IN
         IF ~value.ok THEN value
         ELSE LET buyer == applyBps(BigIntV(value.val), buyerBps) IN
              IF ~buyer.ok THEN buyer
              ELSE Ok([buyer |-> buyer.val, seller |-> value.val - buyer.val])

\* isMultipleOfStep refusing only a negative step: 0n as a divisor makes
\* bigint "%" throw a RangeError
isMultipleOfStep_NegativeOnly(amount, step) ==
    LET a == toBigInt(amount) IN
    IF ~a.ok THEN a
    ELSE LET s == toBigInt(step) IN
         IF ~s.ok THEN s
         ELSE IF s.val < 0 THEN Throw("step must be positive")
         ELSE IF s.val = 0 THEN Throw("RangeError")
         ELSE Ok(TruncRem(a.val, s.val) = 0)

isMultipleOfStep(amount, step) ==
    LET a == toBigInt(amount) IN
    IF ~a.ok THEN a
    ELSE LET s == toBigInt(step) IN
         IF ~s.ok THEN s
         ELSE IF s.val <= 0 THEN Throw("step must be positive")
         ELSE Ok(TruncRem(a.val, s.val) = 0)

(***************************************************************************)
(* bn.js (5.x): new BN(string), in base 10.                                *)
(* A BN is [v |-> its integer value, words |-> whether it has limbs]:      *)
(* the constructor leaves a BN without limbs (words = null, length 0) when *)
(* the string holds no digit at all after white space and a leading "-"    *)
(* are dropped.  mul() on such an object reads words[0] and throws a       *)
(* TypeError; add() of such an operand adds nothing.                       *)
(***************************************************************************)
BNOf(n) == [v |-> n, words |-> TRUE]

BNNoWords == [v |-> 0, words |-> FALSE]

\* number.toString().replace(/\s+/g, '')
RECURSIVE RemoveWhite(_)
RemoveWhite(s) ==
    IF s = <<>> THEN <<>>
    ELSE IF IsWhite(Head(s)) THEN RemoveWhite(Tail(s))
    ELSE <<Head(s)>> \o RemoveWhite(Tail(s))

BNFromString(str) ==
    IF str = <<>> THEN Ok(BNOf(0))
    ELSE LET number == RemoveWhite(str)
             negative == number # <<>> /\ Head(number) = "-"
             digits == IF negative THEN Tail(number) ELSE number
         IN  IF digits = <<>> THEN Ok(BNNoWords)
             ELSE IF ~AllDigits(digits) THEN Throw("Invalid character")
             ELSE Ok(BNOf(IF negative THEN -DigitsValue(digits, 10)
                          ELSE DigitsValue(digits, 10)))

\* a.mul(b), b a proper BN
BNMul(a, b) ==
    IF ~a.words THEN Throw("TypeError") ELSE Ok(BNOf(a.v * b.v))

\* a.add(b), a a proper BN
BNAdd(a, b) == BNOf(a.v + b.v)

(***************************************************************************)
(* String helpers of formatting.ts                                         *)
(***************************************************************************)
RECURSIVE Zeros(_)
Zeros(n) == IF n <= 0 THEN <<>> ELSE <<"0">> \o Zeros(n - 1)

\* s.padStart(n, "0")
PadStart(s, n) == Zeros(n - Len(s)) \o s

\* s.padEnd(n, "0")
PadEnd(s, n) == s \o Zeros(n - Len(s))

\* s.slice(0, n), n >= 0
Slice(s, n) == SubSeq(s, 1, IF n < Len(s) THEN n ELSE Len(s))

\* s.replace(/0+$/, "")
RECURSIVE TrimTrailingZeros(_)
TrimTrailingZeros(s) ==
    IF s # <<>> /\ Last(s) = "0" THEN TrimTrailingZeros(Front(s)) ELSE s

\* s.split("."): the pieces between the points, at least one piece
RECURSIVE Split(_)
Split(s) ==
    IF ~IncludesDot(s) THEN <<s>>
    ELSE LET i == CHOOSE k \in 1..Len(s) :
                      s[k] = "." /\ \A j \in 1..(k - 1) : s[j] # "."
         IN  <<SubSeq(s, 1, i - 1)>> \o Split(SubSeq(s, i + 1, Len(s)))

\* Number.prototype.toString for an integer, a half or NaN
NumberToString(x) ==
    IF IsNaN(x) THEN <<"N", "a", "N">>
    ELSE IF NumIsInteger(x) THEN IntToString(x.num \div x.den)
    ELSE (IF x.num < 0 THEN <<"-">> ELSE <<>>)
         \o NatToString((IF x.num < 0 THEN -x.num ELSE x.num) \div 2)
         \o <<".", "5">>

(***************************************************************************)
(* formatting.ts                                                           *)
(***************************************************************************)
\* formatTokenAmount without the padStart of the remainder
formatTokenAmount_NoPad(lamports, decimals) ==
    LET divisor == Pow10(decimals)
        quotient == TruncDiv(lamports, divisor)
        remainder == TruncRem(lamports, divisor)
        trimmed == TrimTrailingZeros(IntToString(remainder))
    IN  IF Len(trimmed) = 0 THEN Ok(IntToString(quotient))
        ELSE Ok(IntToString(quotient) \o <<".">> \o trimmed)

\* formatTokenAmount without the removal of trailing zeros
formatTokenAmount_NoTrim(lamports, decimals) ==
    LET divisor == Pow10(decimals)
        quotient == TruncDiv(lamports, divisor)
        remainder == TruncRem(lamports, divisor)
        remainderStr == PadStart(IntToString(remainder), decimals)
    IN  IF Len(remainderStr) = 0 THEN Ok(IntToString(quotient))
        ELSE Ok(IntToString(quotient) \o <<".">> \o remainderStr)

\* lamports: the integer held by the BN (or by the number) passed in; the
\* numbers drawn are below 2^53, where new BN(lamports) takes them
formatTokenAmount(lamports, decimals) ==
    LET divisor == Pow10(decimals)
        quotient == TruncDiv(lamports, divisor)
        remainder == TruncRem(lamports, divisor)
        remainderStr == PadStart(IntToString(remainder), decimals)
        trimmed == TrimTrailingZeros(remainderStr)
    IN  IF Len(trimmed) = 0 THEN Ok(IntToString(quotient))
        ELSE Ok(IntToString(quotient) \o <<".">> \o trimmed)

\* parseTokenAmount padding the fraction at its start instead of its end
parseTokenAmount_PadStart(amount, decimals) ==
    LET amountStr == IF amount.t = "string" THEN amount.s
                     ELSE NumberToString(amount)
        parts == Split(amountStr)
        whole == parts[1]
        fraction == IF Len(parts) >= 2 THEN parts[2] ELSE <<"0">>
        paddedFraction == Slice(PadStart(fraction, decimals), decimals)
        wholeParsed == BNFromString(whole)
    IN  IF ~wholeParsed.ok THEN wholeParsed
        ELSE LET wholeBN == BNMul(wholeParsed.val, BNOf(Pow10(decimals))) IN
             IF ~wholeBN.ok THEN wholeBN
             ELSE LET fractionBN == BNFromString(paddedFraction) IN
                  IF ~fractionBN.ok THEN fractionBN
                  ELSE Ok(BNAdd(wholeBN.val, fractionBN.val).v)

\* parseTokenAmount rounding on the first digit it drops
parseTokenAmount_Round(amount, decimals) ==
    LET amountStr == IF amount.t = "string" THEN amount.s
                     ELSE NumberToString(amount)
        parts == Split(amountStr)
        whole == parts[1]
        fraction == IF Len(parts) >= 2 THEN parts[2] ELSE <<"0">>
        paddedFraction == Slice(PadEnd(fraction, decimals), decimals)
        up == IF /\ Len(fraction) > decimals
                 /\ IsDigit(fraction[decimals + 1])
                 /\ DigitVal(fraction[decimals + 1]) >= 5
              THEN 1 ELSE 0
        wholeParsed == BNFromString(whole)
    IN  IF ~wholeParsed.ok THEN wholeParsed
        ELSE LET wholeBN == BNMul(wholeParsed.val, BNOf(Pow10(decimals))) IN
             IF ~wholeBN.ok THEN wholeBN
             ELSE LET fractionBN == BNFromString(paddedFraction) IN
                  IF ~fractionBN.ok THEN fractionBN
                  ELSE Ok(BNAdd(wholeBN.val, fractionBN.val).v + up)

\* amount: a string or a number
parseTokenAmount(amount, decimals) ==
    LET amountStr == IF amount.t = "string" THEN amount.s
                     ELSE NumberToString(amount)
        parts == Split(amountStr)
        whole == parts[1]
        fraction == IF Len(parts) >= 2 THEN parts[2] ELSE <<"0">>
        paddedFraction == Slice(PadEnd(fraction, decimals), decimals)
        wholeParsed == BNFromString(whole)
    IN  IF ~wholeParsed.ok THEN wholeParsed
        ELSE LET wholeBN == BNMul(wholeParsed.val, BNOf(Pow10(decimals))) IN
             IF ~wholeBN.ok THEN wholeBN
             ELSE LET fractionBN == BNFromString(paddedFraction) IN
                  IF ~fractionBN.ok THEN fractionBN
                  ELSE Ok(BNAdd(wholeBN.val, fractionBN.val).v)

(***************************************************************************)
(* Amounts beyond 32 bits.  validateAmount compares against 10^12 and      *)
(* new BN(number) refuses a number of 2^53 or more, so its amounts are     *)
(* held in two limbs as a BN holds them in words:                          *)
(* [neg, hi, lo] is the integer (neg ? -1 : 1) * (hi * LIMB + lo), with    *)
(* 0 <= lo < LIMB, and zero is never negative.                             *)
(***************************************************************************)
LIMB == 1000000000

Wide(n, h, l) == [neg |-> n, hi |-> h, lo |-> l]

WideOfInt(n) ==
    LET m == IF n < 0 THEN -n ELSE n
    IN  Wide(n < 0, m \div LIMB, m % LIMB)

MagLt(a, b) == a.hi < b.hi \/ (a.hi = b.hi /\ a.lo < b.lo)

\* BN.cmp(b) < 0
WideLt(a, b) ==
    IF a.neg # b.neg THEN a.neg
    ELSE IF a.neg THEN MagLt(b, a)
    ELSE MagLt(a, b)

\* BN.lte(b)
WideLte(a, b) == ~WideLt(b, a)

\* BN.gt(b)
WideGt(a, b) == WideLt(b, a)

\* src/constants: MIN_DEAL_AMOUNT = 1_000_000, MAX_DEAL_AMOUNT = 10^12
MIN_DEAL_AMOUNT == 1000000

MAX_DEAL_AMOUNT == Wide(FALSE, 1000, 0)

\* 2^53 = 0x20000000000000 = 9007199254740992
TWO_POW_53 == Wide(FALSE, 9007199, 254740992)

\* new BN(number) for an integer number (bn.js _initNumber): the sign is
\* set aside and the magnitude must be below 2^53
BNFromNumber(w) ==
    IF ~MagLt(w, TWO_POW_53) THEN Throw("Assertion failed") ELSE Ok(w)

(***************************************************************************)
(* utils/validation.ts: validateAmount                                     *)
(* amount is [t |-> "number" or "BN", w |-> its integer value].            *)
(* A ValidationResult is [valid, error], error "undefined" when absent.    *)
(***************************************************************************)
Valid == [valid |-> TRUE, error |-> "undefined"]

Invalid(e) == [valid |-> FALSE, error |-> e]

validateAmount(amount) ==
    LET amountBN == IF amount.t = "number" THEN BNFromNumber(amount.w)
                    ELSE Ok(amount.w)
    IN  IF ~amountBN.ok THEN amountBN
        ELSE IF WideLte(amountBN.val, WideOfInt(0))
            THEN Ok(Invalid("Amount must be positive"))
        ELSE IF WideLt(amountBN.val, WideOfInt(MIN_DEAL_AMOUNT))
            THEN Ok(Invalid("Amount must be at least 1000000 base units"))
        ELSE IF WideGt(amountBN.val, MAX_DEAL_AMOUNT)
            THEN Ok(Invalid("Amount must not exceed 1000000000000 base units"))
        ELSE Ok(Valid)

(***************************************************************************)
(* utils/validation.ts: the other validators                               *)
(***************************************************************************)
MAX_BPS == 10000
MIN_DISPUTE_WINDOW == 3600
MAX_DISPUTE_WINDOW == 2592000

\* feeBps: a number
validateFeeBps(feeBps) ==
    IF ~NumIsInteger(feeBps) THEN Ok(Invalid("Fee BPS must be an integer"))
    ELSE IF NumLt(feeBps, 0) THEN Ok(Invalid("Fee BPS cannot be negative"))
    ELSE IF NumGt(feeBps, MAX_BPS)
        THEN Ok(Invalid("Fee BPS cannot exceed 10000 (100%)"))
    ELSE Ok(Valid)

\* the integer a two-limb value below 2^31 stands for
IntOfWide(w) ==
    IF w.neg THEN -(w.hi * LIMB + w.lo) ELSE w.hi * LIMB + w.lo

\* BN.toNumber(): refuses a value of more than 53 bits
BNToNumber(w) ==
    IF ~MagLt(w, TWO_POW_53)
        THEN Throw("Number can only safely store up to 53 bits")
    ELSE Ok(IntOfWide(w))

\* disputeBy: [t |-> "number" or "BN", w |-> its integer value];
\* now: currentTime, or the clock's second when currentTime is 0 or absent
validateDisputeDeadline(disputeBy, now) ==
    LET disputeByNum == IF disputeBy.t = "number" THEN Ok(IntOfWide(disputeBy.w))
                        ELSE BNToNumber(disputeBy.w)
    IN  IF ~disputeByNum.ok THEN disputeByNum
        ELSE LET windowSeconds == disputeByNum.val - now IN
             IF disputeByNum.val <= now
                THEN Ok(Invalid("Dispute deadline must be in the future"))
             ELSE IF windowSeconds < MIN_DISPUTE_WINDOW
                THEN Ok(Invalid("Dispute window must be at least 3600 seconds"))
             ELSE IF windowSeconds > MAX_DISPUTE_WINDOW
                THEN Ok(Invalid("Dispute window cannot exceed 2592000 seconds"))
             ELSE Ok(Valid)

\* bs58: the alphabet, in the order of the digits' values
BASE58 ==
    <<"1", "2", "3", "4", "5", "6", "7", "8", "9", "A", "B", "C",
      "D", "E", "F", "G", "H", "J", "K", "L", "M", "N", "P", "Q",
      "R", "S", "T", "U", "V", "W", "X", "Y", "Z", "a", "b", "c",
      "d", "e", "f", "g", "h", "i", "j", "k", "m", "n", "o", "p",
      "q", "r", "s", "t", "u", "v", "w", "x", "y", "z">>

IsBase58(c) == c \in Range(BASE58)

Base58Val(c) == (CHOOSE i \in 1..Len(BASE58) : BASE58[i] = c) - 1

\* the zero bytes a text's leading "1"s decode to
RECURSIVE LeadingOnes(_)
LeadingOnes(s) ==
    IF s # <<>> /\ Head(s) = "1" THEN 1 + LeadingOnes(Tail(s)) ELSE 0

RECURSIVE Base58Value(_)
Base58Value(s) ==
    IF s = <<>> THEN 0 ELSE Base58Value(Front(s)) * 58 + Base58Val(Last(s))

RECURSIVE ByteLength(_)
ByteLength(n) == IF n = 0 THEN 0 ELSE 1 + ByteLength(n \div 256)

\* the number of bytes bs58.decode(s) gives, s of base58 characters
DecodedLength(s) ==
    LeadingOnes(s) + ByteLength(Base58Value(SubSeq(s, LeadingOnes(s) + 1, Len(s))))

PUBLIC_KEY_LENGTH == 32

\* new PublicKey(value), value a string
NewPublicKey(s) ==
    IF \E i \in 1..Len(s) : ~IsBase58(s[i]) THEN Throw("Non-base58 character")
    ELSE IF DecodedLength(s) # PUBLIC_KEY_LENGTH
        THEN Throw("Invalid public key input")
    ELSE Ok(s)

\* key: a PublicKey, [t |-> "PublicKey", id, onCurve], or a string,
\* [t |-> "string", s]; what new PublicKey(string) throws is caught and its
\* message reported
validatePublicKey(key) ==
    IF key.t = "string"
        THEN LET made == NewPublicKey(key.s) IN
             IF made.ok THEN Ok(Valid)
             ELSE Ok(Invalid("Invalid public key: " \o made.err))
    ELSE IF ~key.onCurve THEN Ok(Invalid("Invalid public key: not on curve"))
    ELSE Ok(Valid)

\* the loop over seller, buyer, arbiter, mint: the first key found invalid
RECURSIVE FirstBadKey(_, _)
FirstBadKey(names, params) ==
    IF names = <<>> THEN Ok(Valid)
    ELSE LET name == Head(names)
             keyResult == validatePublicKey(params[name])
         IN  IF ~keyResult.ok THEN keyResult
             ELSE IF ~keyResult.val.valid
                THEN Ok(Invalid(name \o ": " \o keyResult.val.error))
             ELSE FirstBadKey(Tail(names), params)

KeyNames == <<"seller", "buyer", "arbiter", "mint">>

\* now: the clock's second read inside validateDisputeDeadline
validateInitiateParams(params, now) ==
    LET amountResult == validateAmount(params.amount) IN
    IF ~amountResult.ok \/ ~amountResult.val.valid THEN amountResult
    ELSE LET feeResult == validateFeeBps(params.feeBps) IN
    IF ~feeResult.ok \/ ~feeResult.val.valid THEN feeResult
    ELSE LET deadlineResult == validateDisputeDeadline(params.disputeBy, now) IN
    IF ~deadlineResult.ok \/ ~deadlineResult.val.valid THEN deadlineResult
    ELSE LET keyResult == FirstBadKey(KeyNames, params) IN
    IF ~keyResult.ok \/ ~keyResult.val.valid THEN keyResult
    ELSE IF params.buyer.id = params.seller.id
        THEN Ok(Invalid("Buyer and seller must be different"))
    ELSE Ok(Valid)

(***************************************************************************)
(* builders/dealBuilders.ts                                                *)
(* A method name is a string (a sequence of characters).  A program is     *)
(* [hasMethods, methods]: whether it has a methods namespace, and the      *)
(* names defined in it; the method named n builds the instruction          *)
(* [method |-> n, args, accounts, remainingAccounts].                      *)
(***************************************************************************)
LowerCase == <<"a", "b", "c", "d", "e", "f", "g", "h", "i", "j", "k", "l", "m",
               "n", "o", "p", "q", "r", "s", "t", "u", "v", "w", "x", "y", "z">>
UpperCase == <<"A", "B", "C", "D", "E", "F", "G", "H", "I", "J", "K", "L", "M",
               "N", "O", "P", "Q", "R", "S", "T", "U", "V", "W", "X", "Y", "Z">>

\* the method names the builders and the programs use
M_initiate == <<"i", "n", "i", "t", "i", "a", "t", "e">>
M_fund == <<"f", "u", "n", "d">>
M_submitEvidence == <<"s", "u", "b", "m", "i", "t", "E", "v", "i", "d", "e", "n", "c", "e">>
M_openDispute == <<"o", "p", "e", "n", "D", "i", "s", "p", "u", "t", "e">>
M_resolve == <<"r", "e", "s", "o", "l", "v", "e">>
M_release == <<"r", "e", "l", "e", "a", "s", "e">>
M_refund == <<"r", "e", "f", "u", "n", "d">>
M_submit_evidence == <<"s", "u", "b", "m", "i", "t", "_", "e", "v", "i", "d", "e", "n", "c", "e">>
M_open_dispute == <<"o", "p", "e", "n", "_", "d", "i", "s", "p", "u", "t", "e">>
M_init_deal == <<"i", "n", "i", "t", "_", "d", "e", "a", "l">>

IsLower(c) == c \in Range(LowerCase)
IsUpper(c) == c \in Range(UpperCase)

ToLowerChar(c) ==
    IF IsUpper(c)
        THEN LowerCase[CHOOSE i \in 1..Len(UpperCase) : UpperCase[i] = c]
    ELSE c

ToLowerCase(s) == [i \in 1..Len(s) |-> ToLowerChar(s[i])]

\* replace(/([a-z])([A-Z])/g, "$1_$2"): matches are taken left to right
\* and do not overlap
RECURSIVE InsertUnderscores(_)
InsertUnderscores(s) ==
    IF Len(s) < 2 THEN s
    ELSE IF IsLower(s[1]) /\ IsUpper(s[2])
        THEN <<s[1], "_", s[2]>> \o InsertUnderscores(SubSeq(s, 3, Len(s)))
    ELSE <<s[1]>> \o InsertUnderscores(Tail(s))

camelToSnake(name) == ToLowerCase(InsertUnderscores(name))

\* the characters of a name as one string
RECURSIVE Join(_)
Join(s) == IF s = <<>> THEN "" ELSE Head(s) \o Join(Tail(s))

\* methods?.[name]: the method of that name, if the program has one
HasMethod(program, name) == program.hasMethods /\ name \in program.methods

\* buildSingleInstructionTx up to its await (lines 48 to 68): the error of
\* a missing method, or the instruction builder.instruction() is asked for
buildSingleInstructionTx(params) ==
    LET ctx == params.ctx
        methodName == params.methodName
        snake == camelToSnake(methodName)
    IN  IF ~HasMethod(ctx.program, methodName) /\ ~HasMethod(ctx.program, snake)
            THEN Throw("Program has no method '" \o Join(methodName) \o "' or '"
                       \o Join(snake)
                       \o "'. Please adjust builder to match your IDL.")
        ELSE LET methodFn == IF HasMethod(ctx.program, methodName)
                                THEN methodName ELSE snake
             IN  Ok([method |-> methodFn,
                     args |-> params.args,
                     accounts |-> params.accounts,
                     remainingAccounts |->
                         IF params.remainingAccounts.given
                            /\ Len(params.remainingAccounts.metas) > 0
                             THEN params.remainingAccounts.metas
                         ELSE <<>>])

\* buildSingleInstructionTx leaving the fee payer out of the transaction
TransactionWith_NoFeePayer(ix, ctx) ==
    Ok([ix |-> ix,
        tx |-> [instructions |-> <<ix>>, feePayer |-> "undefined"]])

\* buildSingleInstructionTx after its await (lines 69 to 75), ctx as it
\* is by then
TransactionWith(ix, ctx) ==
    Ok([ix |-> ix,
        tx |-> [instructions |-> <<ix>>,
                feePayer |-> IF ctx.feePayer # "undefined"
                                THEN ctx.feePayer ELSE "undefined"]])

WithMethodName(params, methodName) ==
    [ctx |-> params.ctx, methodName |-> methodName, args |-> params.args,
     accounts |-> params.accounts,
     remainingAccounts |-> params.remainingAccounts]

buildInitiate(params) ==
    buildSingleInstructionTx(WithMethodName(params, M_initiate))

buildFund(params) ==
    buildSingleInstructionTx(WithMethodName(params, M_fund))

buildSubmitEvidence(params) ==
    buildSingleInstructionTx(WithMethodName(params, M_submitEvidence))

buildOpenDispute(params) ==
    buildSingleInstructionTx(WithMethodName(params, M_openDispute))

buildResolve(params) ==
    buildSingleInstructionTx(WithMethodName(params, M_resolve))

buildRelease(params) ==
    buildSingleInstructionTx(WithMethodName(params, M_release))

buildRefund(params) ==
    buildSingleInstructionTx(WithMethodName(params, M_refund))

(***************************************************************************)
(* utils/formatting.ts: the BN fee helpers                                 *)
(***************************************************************************)
\* new BN(number) for a number below 2^26 in magnitude: the sign is taken
\* off, the fraction is cut by the bitwise and, and NaN becomes 0
BNInitNumber(n) == IF IsNaN(n) THEN BNOf(0) ELSE BNOf(MathTrunc(n))

\* a.div(b), b not zero: the quotient rounded toward zero
BNDiv(a, b) == BNOf(TruncDiv(a.v, b.v))

BNSub(a, b) == BNOf(a.v - b.v)

\* amount: a BN; feeBps: a number
calculateFee(amount, feeBps) ==
    LET product == BNMul(amount, BNInitNumber(feeBps)) IN
    IF ~product.ok THEN product
    ELSE Ok(BNDiv(product.val, BNInitNumber(IntV(10000))))

calculateAmountAfterFee(amount, feeBps) ==
    LET fee == calculateFee(amount, feeBps) IN
    IF ~fee.ok THEN fee
    ELSE Ok(BNSub(amount, fee.val))

(***************************************************************************)
(* The error kinds of the specification (section 7) for what is thrown.    *)
(***************************************************************************)
ErrorKind(e) ==
    IF e \in {"toBigInt: cannot parse decimal string", "SyntaxError",
              "Invalid character"}
        THEN "InvalidAmountFormat"
    ELSE IF e \in {"bps must be between 0 and 10_000",
                   "buyerBps must be between 0 and 10_000"}
        THEN "InvalidBpsRange"
    ELSE IF e = "step must be positive" THEN "InvalidStep"
    ELSE "Other"

(***************************************************************************)
(* Arguments the caller draws.                                             *)
(***************************************************************************)
Chars == {"0", "1", "2", ".", "-", " ", "\t", "x"}

Strings(n) == UNION {[1..k -> Chars] : k \in 0..n}

LargeAmounts == {1000, 9999, 12345, 200000}

SomeNumbers ==
    {NumberV(n, d) : n \in {-3, -1, 0, 1, 3, 5, 25, 100, 1000}, d \in {1, 2}}
        \cup {NaN}

\* texts holding white space that only a name can hold
WhiteTexts ==
    { <<"U+2003", "1">>, <<"1", "U+3000">>, <<"U+2028">>,
      <<"1", "U+2009", "5">> }

\* what toBigInt is called with
BNLikeInputs ==
    {BigIntV(n) : n \in -2..MaxAmount}
        \cup SomeNumbers
        \cup {StringV(s) : s \in Strings(MaxLen) \cup WhiteTexts}

\* the amounts applyBps, splitAmountByBps and isMultipleOfStep are called with
AmountArgs ==
    {BigIntV(n) : n \in (-2..MaxAmount) \cup LargeAmounts}
        \cup SomeNumbers
        \cup {StringV(s) : s \in Strings(2)}

BpsValues == {-1, 0, 1, 3, 250, 2500, 3333, 5000, 9999, 10000, 10001}

BpsArgs ==
    {IntV(b) : b \in BpsValues}
        \cup {NumberV(-1, 2), NumberV(5, 2), NumberV(20001, 2), NaN}

StepArgs ==
    {BigIntV(n) : n \in -2..12}
        \cup SomeNumbers
        \cup {StringV(s) : s \in Strings(2)}

FormatArgs ==
    ((-3..MaxFormatAmount) \X (0..MaxDecimals))
        \cup ({1000000, 1500000, 1000001, 100000000} \X {USDC_DECIMALS})

ExampleTexts ==
    { <<"1", "0", "0">>, <<"1", ".", "5">>, <<"1", ".", "2", ".", "3">>,
      <<"1", ".", "0", "0", "0", "0", "0", "1">>,
      <<"0", ".", "1", "2", "3", "4", "5", "6", "7">>,
      <<"1", ".", "5", "0">>, <<"0", "7">> }

ParseArgs ==
    ({StringV(s) : s \in Strings(MaxLen)} \X (0..MaxDecimals))
        \cup (SomeNumbers \X (0..MaxDecimals))
        \cup ({StringV(s) : s \in ExampleTexts \cup WhiteTexts} \X {USDC_DECIMALS})

\* the amounts validateAmount is called with: small ones, the ones around
\* the two limits and around 2^53, as a number and as a BN, and the BN
\* parseTokenAmount returns for a text at USDC_DECIMALS
WideValues ==
    {WideOfInt(n) : n \in (-2..MaxAmount)
                      \cup {999999, 1000000, 1000001, 100000000, -1000000}}
        \cup {Wide(s, h[1], h[2]) :
                s \in BOOLEAN,
                h \in {<<999, 999999999>>, <<1000, 0>>, <<1000, 1>>,
                       <<5000, 0>>, <<9007199, 254740991>>,
                       <<9007199, 254740992>>, <<9007200, 0>>}}

ParsedAmounts ==
    {WideOfInt(parseTokenAmount(StringV(s), USDC_DECIMALS).val) :
        s \in {x \in ExampleTexts \cup Strings(2) :
                 parseTokenAmount(StringV(x), USDC_DECIMALS).ok}}

ValidateAmountArgs ==
    {[t |-> k, w |-> w] : k \in {"number", "BN"}, w \in WideValues}
        \cup {[t |-> "BN", w |-> w] : w \in ParsedAmounts}

\* what validateInitiateParams is called with
Clock == {100000, 1700000000}

InitiateAmounts ==
    {[t |-> "BN", w |-> WideOfInt(100000000)],
     [t |-> "number", w |-> WideOfInt(1000000)],
     [t |-> "number", w |-> WideOfInt(0)],
     [t |-> "BN", w |-> Wide(FALSE, 1000, 1)],
     [t |-> "number", w |-> TWO_POW_53]}

InitiateFees == {IntV(250), IntV(-1), IntV(10001), NumberV(5, 2)}

\* the deadline as seconds after the clock's reading
DeadlineOffsets == {0, 3599, 3600, 2592000, 2592001}

PublicKeys ==
    {[t |-> "PublicKey", id |-> 1, onCurve |-> TRUE],
     [t |-> "PublicKey", id |-> 2, onCurve |-> TRUE],
     [t |-> "PublicKey", id |-> 3, onCurve |-> FALSE]}

InitiateDeadlines(now) ==
    {[t |-> k, w |-> WideOfInt(now + d)] :
        k \in {"number", "BN"}, d \in DeadlineOffsets}
        \cup {[t |-> "BN", w |-> TWO_POW_53]}

\* what the builders are called with
IdlCamel ==
    {M_initiate, M_fund, M_submitEvidence, M_openDispute, M_resolve, M_release, M_refund}

IdlSnake ==
    {M_initiate, M_fund, M_submit_evidence, M_open_dispute, M_resolve, M_release, M_refund}

\* programs: none of the methods, the camelCase ones, the snake_case ones,
\* both, one of another IDL, and a handful with a single method
MethodSets ==
    {{}, IdlCamel, IdlSnake, IdlCamel \cup IdlSnake, {M_init_deal},
     {M_submitEvidence}, {M_submit_evidence}, {M_open_dispute}, {M_fund}, {M_refund, M_release}}

Programs ==
    {[hasMethods |-> TRUE, methods |-> m] : m \in MethodSets}
        \cup {[hasMethods |-> FALSE, methods |-> {}]}

RemainingAccounts ==
    {[given |-> FALSE, metas |-> <<>>],
     [given |-> TRUE, metas |-> <<>>],
     [given |-> TRUE, metas |-> <<"meta1", "meta2">>]}

BuilderParams ==
    [ctx : [program : Programs, feePayer : {"undefined", "payer"}],
     args : {<<>>, <<"dealParams">>},
     accounts : {[deal |-> "dealPda", buyer |-> "buyerKey"]},
     remainingAccounts : RemainingAccounts]

\* the amounts the BN fee helpers are called with
BNAmounts == {BNOf(n) : n \in (-2..MaxAmount) \cup LargeAmounts}

\* the texts validatePublicKey is called with: the system program's
\* address (32 "1"s), texts of 31, 32 and 33 bytes, short texts, and texts
\* with a character that is no base58 digit
RECURSIVE Ones(_)
Ones(n) == IF n <= 0 THEN <<>> ELSE <<"1">> \o Ones(n - 1)

KeyTexts ==
    {Ones(32), Ones(31) \o <<"2">>, Ones(30) \o <<"5", "R">>, Ones(33),
     Ones(31), Ones(32) \o <<"2">>, <<>>, <<"a", "b", "c">>, <<"2">>,
     <<"n", "o", "t", "-", "a", "-", "k", "e", "y">>, <<"i", "n", "v", "a", "l", "i", "d">>, <<"0", "O", "I", "l">>, Ones(32) \o <<" ">>, Ones(31) \o <<"0">>}

KeyArgs == PublicKeys \cup {[t |-> "string", s |-> s] : s \in KeyTexts}

(***************************************************************************)
(* The caller.                                                             *)
(***************************************************************************)
\* no transaction in the client's hands
NoTransaction ==
    [feePayer |-> "undefined", recentBlockhash |-> "undefined", signed |-> FALSE]

\* no context in a builder's hands
NoContext ==
    [program |-> [hasMethods |-> FALSE, methods |-> {}], feePayer |-> "undefined"]

\* no simulate in flight
NoSimulate == [pc |-> "idle", args |-> <<>>, out |-> <<>>, log |-> <<>>]

Init ==
    /\ pc = "idle"
    /\ op = "none"
    /\ args = <<>>
    /\ out = <<>>
    /\ tx = NoTransaction
    /\ log = <<>>
    /\ builderCtx = NoContext
    /\ sim = NoSimulate

\* nothing is pending.  A synchronous function runs to its end within one
\* turn of the event loop and touches neither a transaction nor a context:
\* its call is taken when nothing is pending
Quiet == pc = "idle" /\ sim.pc = "idle"

Call_toBigInt ==
    /\ Quiet
    /\ \E value \in BNLikeInputs :
        /\ args' = [value |-> value]
        /\ out' = toBigInt(value)
    /\ op' = "toBigInt"
    /\ pc' = "returned"
    /\ UNCHANGED <<tx, log, builderCtx, sim>>

Call_applyBps ==
    /\ Quiet
    /\ \E amount \in AmountArgs, bps \in BpsArgs :
        /\ args' = [amount |-> amount, bps |-> bps]
        /\ out' = applyBps(amount, bps)
    /\ op' = "applyBps"
    /\ pc' = "returned"
    /\ UNCHANGED <<tx, log, builderCtx, sim>>

Call_splitAmountByBps ==
    /\ Quiet
    /\ \E total \in AmountArgs, buyerBps \in BpsArgs :
        /\ args' = [total |-> total, buyerBps |-> buyerBps]
        /\ out' = splitAmountByBps(total, buyerBps)
    /\ op' = "splitAmountByBps"
    /\ pc' = "returned"
    /\ UNCHANGED <<tx, log, builderCtx, sim>>

Call_isMultipleOfStep ==
    /\ Quiet
    /\ \E amount \in AmountArgs, step \in StepArgs :
        /\ args' = [amount |-> amount, step |-> step]
        /\ out' = isMultipleOfStep(amount, step)
    /\ op' = "isMultipleOfStep"
    /\ pc' = "returned"
    /\ UNCHANGED <<tx, log, builderCtx, sim>>

Call_formatTokenAmount ==
    /\ Quiet
    /\ \E a \in FormatArgs :
        /\ args' = [lamports |-> a[1], decimals |-> a[2]]
        /\ out' = formatTokenAmount(a[1], a[2])
    /\ op' = "formatTokenAmount"
    /\ pc' = "returned"
    /\ UNCHANGED <<tx, log, builderCtx, sim>>

Call_parseTokenAmount ==
    /\ Quiet
    /\ \E a \in ParseArgs :
        /\ args' = [amount |-> a[1], decimals |-> a[2]]
        /\ out' = parseTokenAmount(a[1], a[2])
    /\ op' = "parseTokenAmount"
    /\ pc' = "returned"
    /\ UNCHANGED <<tx, log, builderCtx, sim>>

Call_validateAmount ==
    /\ Quiet
    /\ \E amount \in ValidateAmountArgs :
        /\ args' = [amount |-> amount]
        /\ out' = validateAmount(amount)
    /\ op' = "validateAmount"
    /\ pc' = "returned"
    /\ UNCHANGED <<tx, log, builderCtx, sim>>

Call_validatePublicKey ==
    /\ Quiet
    /\ \E key \in KeyArgs :
        /\ args' = [key |-> key]
        /\ out' = validatePublicKey(key)
    /\ op' = "validatePublicKey"
    /\ pc' = "returned"
    /\ UNCHANGED <<tx, log, builderCtx, sim>>

Call_validateInitiateParams ==
    /\ Quiet
    /\ \E now \in Clock, amount \in InitiateAmounts, feeBps \in InitiateFees,
          seller \in PublicKeys, buyer \in PublicKeys,
          arbiter \in PublicKeys, mint \in PublicKeys :
        \E disputeBy \in InitiateDeadlines(now) :
            LET params == [amount |-> amount, feeBps |-> feeBps,
                           disputeBy |-> disputeBy, seller |-> seller,
                           buyer |-> buyer, arbiter |-> arbiter, mint |-> mint]
            IN  /\ args' = [params |-> params, now |-> now]
                /\ out' = validateInitiateParams(params, now)
    /\ op' = "validateInitiateParams"
    /\ pc' = "returned"
    /\ UNCHANGED <<tx, log, builderCtx, sim>>

(***************************************************************************)
(* clients/escrowClient.ts: EscrowClient.sendAndConfirm.  An async         *)
(* function: one action per stretch of code between two awaits.  log is    *)
(* the calls it made on the wallet, the transaction and the connection,    *)
(* and how each ended; the wallet and the connection resolve or reject as  *)
(* they choose.                                                            *)
(***************************************************************************)
Called(f) == [e |-> "call", f |-> f]
Resolved(f) == [e |-> "ok", f |-> f]
Rejected(f) == [e |-> "fail", f |-> f]
\* f resolved with a result that reports an error: confirmTransaction's
\* { value: { err } } with err not null, the transaction having failed
ResolvedWithError(f) == [e |-> "err", f |-> f]

WalletPublicKey == "wallet"

Transactions ==
    [feePayer : {"undefined", "payer"},
     recentBlockhash : {"undefined", "h0"},
     signed : {FALSE}]

SendOpts ==
    [skipPreflight : {"undefined", "true"},
     commitment : {"undefined", "finalized"}]

\* what the cluster answers getLatestBlockhash with
Blockhashes == {"h1", "h2"}

\* the transaction a client call is handed: the one a call in flight is
\* working on, or one the caller has just made
HandedTransactions ==
    IF op = "sendAndConfirm" \/ sim.pc # "idle" THEN {tx} ELSE Transactions

\* tx.feePayer ??= wallet.publicKey
WithFeePayer(t) ==
    [t EXCEPT !.feePayer = IF @ = "undefined" THEN WalletPublicKey ELSE @]

\* tx.recentBlockhash = h: signatures made over another blockhash no longer
\* verify
WithBlockhash(t, h) ==
    [t EXCEPT !.recentBlockhash = h,
              !.signed = IF t.recentBlockhash = h THEN @ ELSE FALSE]

\* wallet.signTransaction(t) is called and hands back its promise: a wallet
\* that signs synchronously (anchor's NodeWallet) has signed t in place
\* by then, another has not touched it yet
DuringSignCall(t) == {t, [t EXCEPT !.signed = TRUE]}

\* tx.feePayer ??= wallet.publicKey; tx.recentBlockhash ??= (await ...):
\* the blockhash is asked for only when the transaction has none, and
\* otherwise the wallet is asked to sign at once
Call_sendAndConfirm ==
    /\ pc = "idle"
    /\ \E t \in HandedTransactions, opts \in SendOpts :
        /\ args' = [tx |-> t, opts |-> opts]
        /\ IF t.recentBlockhash = "undefined"
              THEN /\ tx' = WithFeePayer(t)
                   /\ log' = <<Called("getLatestBlockhash")>>
                   /\ pc' = "awaitBlockhash"
              ELSE /\ tx' \in DuringSignCall(WithFeePayer(t))
                   /\ log' = <<Called("signTransaction")>>
                   /\ pc' = "awaitSign"
    /\ op' = "sendAndConfirm"
    /\ out' = <<>>
    /\ UNCHANGED <<builderCtx, sim>>

\* the blockhash arrives and is assigned, whatever the transaction has by
\* now; then the wallet is asked to sign
BlockhashResolved ==
    /\ pc = "awaitBlockhash"
    /\ \E h \in Blockhashes :
        tx' \in DuringSignCall(WithBlockhash(tx, h))
    /\ log' = log \o <<Resolved("getLatestBlockhash"), Called("signTransaction")>>
    /\ pc' = "awaitSign"
    /\ UNCHANGED <<op, args, out, builderCtx, sim>>

\* the wallet resolves with `signed`: the transaction it was handed, signed
\* in place (during the call or by now), or a signed copy that leaves the
\* transaction as it is; and `signed` carries all its signatures or not.
\* signed.serialize() throws on a transaction that lacks one; the raw bytes
\* are passed to sendRawTransaction
SignResolved ==
    /\ pc = "awaitSign"
    /\ \E inPlace \in BOOLEAN, complete \in BOOLEAN :
        /\ (inPlace /\ tx.signed) => complete
        /\ tx' = IF inPlace THEN [tx EXCEPT !.signed = complete] ELSE tx
        /\ IF complete
              THEN /\ log' = log \o <<Resolved("signTransaction"),
                                      Called("serialize"), Resolved("serialize"),
                                      Called("sendRawTransaction")>>
                   /\ pc' = "awaitSend"
                   /\ out' = out
              ELSE /\ log' = log \o <<Resolved("signTransaction"),
                                      Called("serialize"), Rejected("serialize")>>
                   /\ pc' = "returned"
                   /\ out' = Throw("Signature verification failed")
    /\ UNCHANGED <<op, args, builderCtx, sim>>

\* sendRawTransaction with the signature resolved before confirmation
\* is asked for: the variant that returns as soon as the cluster took it
SendResolved_ReturnAtOnce ==
    /\ pc = "awaitSend"
    /\ out' = Ok("sig")
    /\ log' = log \o <<Resolved("sendRawTransaction")>>
    /\ pc' = "returned"
    /\ UNCHANGED <<op, args, tx, builderCtx, sim>>

\* the cluster took the transaction: sig is kept in out.sig, and the
\* latest blockhash is asked for to build the confirmation strategy
SendResolved ==
    /\ pc = "awaitSend"
    /\ out' = [sig |-> "sig"]
    /\ log' = log \o <<Resolved("sendRawTransaction"),
                       Called("getLatestBlockhash")>>
    /\ pc' = "awaitConfirmBlockhash"
    /\ UNCHANGED <<op, args, tx, builderCtx, sim>>

ConfirmBlockhashResolved ==
    /\ pc = "awaitConfirmBlockhash"
    /\ log' = log \o <<Resolved("getLatestBlockhash"),
                       Called("confirmTransaction")>>
    /\ pc' = "awaitConfirm"
    /\ UNCHANGED <<op, args, out, tx, builderCtx, sim>>

\* confirmTransaction resolves, with value.err null (the transaction went
\* through) or not (it failed); its result is dropped and sig is returned
ConfirmResolved ==
    /\ pc = "awaitConfirm"
    /\ out' = Ok(out.sig)
    /\ \E confirmed \in {Resolved("confirmTransaction"),
                         ResolvedWithError("confirmTransaction")} :
        log' = log \o <<confirmed>>
    /\ pc' = "returned"
    /\ UNCHANGED <<op, args, tx, builderCtx, sim>>

\* the call sendAndConfirm is waiting for, by its position
Awaited ==
    [awaitBlockhash |-> "getLatestBlockhash",
     awaitSign |-> "signTransaction",
     awaitSend |-> "sendRawTransaction",
     awaitConfirmBlockhash |-> "getLatestBlockhash",
     awaitConfirm |-> "confirmTransaction"]

\* the awaited promise rejects: sendAndConfirm rejects with its reason; the
\* transaction stays as it is, signed if the wallet had signed it
AwaitRejected ==
    /\ pc \in DOMAIN Awaited
    /\ log' = log \o <<Rejected(Awaited[pc])>>
    /\ out' = Throw(Awaited[pc] \o " failed")
    /\ pc' = "returned"
    /\ UNCHANGED <<op, args, tx, builderCtx, sim>>

(***************************************************************************)
(* EscrowClient.simulate, which may run while a sendAndConfirm on the      *)
(* same transaction waits, and the other way round.  sim is its position,  *)
(* arguments, outcome and the calls it made.                               *)
(***************************************************************************)
SimulateOpts ==
    [commitment : {"undefined"}, sigVerify : {"undefined", "true"}]

\* tx.serialize({verifySignatures: sigVerify ?? false}) and the call of
\* simulateTransaction: serialize throws when it is to verify signatures
\* that are missing or no longer valid
SimulateEncoded(t, a, l) ==
    IF a.opts.sigVerify = "true" /\ ~t.signed
        THEN [pc |-> "returned", args |-> a,
              out |-> Throw("Signature verification failed"),
              log |-> l \o <<Called("serialize"), Rejected("serialize")>>]
    ELSE [pc |-> "awaitSimulate", args |-> a, out |-> <<>>,
          log |-> l \o <<Called("serialize"), Resolved("serialize"),
                         Called("simulateTransaction")>>]

Call_simulate ==
    /\ sim.pc = "idle"
    /\ pc = "idle" \/ op = "sendAndConfirm"
    /\ \E t \in HandedTransactions, opts \in SimulateOpts :
        /\ tx' = WithFeePayer(t)
        /\ sim' = IF t.recentBlockhash = "undefined"
                    THEN [pc |-> "awaitBlockhash",
                          args |-> [tx |-> t, opts |-> opts], out |-> <<>>,
                          log |-> <<Called("getLatestBlockhash")>>]
                  ELSE SimulateEncoded(WithFeePayer(t),
                                       [tx |-> t, opts |-> opts], <<>>)
    /\ UNCHANGED <<pc, op, args, out, log, builderCtx>>

SimulateBlockhashResolved ==
    /\ sim.pc = "awaitBlockhash"
    /\ \E h \in Blockhashes :
        /\ tx' = WithBlockhash(tx, h)
        /\ sim' = SimulateEncoded(WithBlockhash(tx, h), sim.args,
                                  sim.log \o <<Resolved("getLatestBlockhash")>>)
    /\ UNCHANGED <<pc, op, args, out, log, builderCtx>>

\* simulateTransaction resolves: its response is what simulate returns
SimulateResolved ==
    /\ sim.pc = "awaitSimulate"
    /\ sim' = [sim EXCEPT !.pc = "returned", !.out = Ok("simulated"),
                          !.log = @ \o <<Resolved("simulateTransaction")>>]
    /\ UNCHANGED <<pc, op, args, out, tx, log, builderCtx>>

SimulateAwaited ==
    [awaitBlockhash |-> "getLatestBlockhash",
     awaitSimulate |-> "simulateTransaction"]

SimulateAwaitRejected ==
    /\ sim.pc \in DOMAIN SimulateAwaited
    /\ sim' = [sim EXCEPT !.pc = "returned",
                          !.out = Throw(SimulateAwaited[sim.pc] \o " failed"),
                          !.log = @ \o <<Rejected(SimulateAwaited[sim.pc])>>]
    /\ UNCHANGED <<pc, op, args, out, tx, log, builderCtx>>

\* the caller takes simulate's outcome; the transaction stays with a
\* sendAndConfirm that still works on it
SimulateReturn ==
    /\ sim.pc = "returned"
    /\ sim' = NoSimulate
    /\ tx' = IF op = "sendAndConfirm" THEN tx ELSE NoTransaction
    /\ UNCHANGED <<pc, op, args, out, log, builderCtx>>

\* a builder is called: it rejects at once when the program lacks the
\* method, and otherwise waits for builder.instruction(); builderCtx is the
\* context object the caller handed over and still holds
Call_buildInitiate ==
    /\ Quiet
    /\ \E params \in BuilderParams :
        LET started == buildInitiate(params) IN
        /\ args' = [params |-> params]
        /\ builderCtx' = params.ctx
        /\ IF started.ok
              THEN pc' = "awaitInstruction" /\ out' = [ix |-> started.val]
              ELSE pc' = "returned" /\ out' = started
    /\ op' = "buildInitiate"
    /\ UNCHANGED <<tx, log, sim>>

Call_buildFund ==
    /\ Quiet
    /\ \E params \in BuilderParams :
        LET started == buildFund(params) IN
        /\ args' = [params |-> params]
        /\ builderCtx' = params.ctx
        /\ IF started.ok
              THEN pc' = "awaitInstruction" /\ out' = [ix |-> started.val]
              ELSE pc' = "returned" /\ out' = started
    /\ op' = "buildFund"
    /\ UNCHANGED <<tx, log, sim>>

Call_buildSubmitEvidence ==
    /\ Quiet
    /\ \E params \in BuilderParams :
        LET started == buildSubmitEvidence(params) IN
        /\ args' = [params |-> params]
        /\ builderCtx' = params.ctx
        /\ IF started.ok
              THEN pc' = "awaitInstruction" /\ out' = [ix |-> started.val]
              ELSE pc' = "returned" /\ out' = started
    /\ op' = "buildSubmitEvidence"
    /\ UNCHANGED <<tx, log, sim>>

Call_buildOpenDispute ==
    /\ Quiet
    /\ \E params \in BuilderParams :
        LET started == buildOpenDispute(params) IN
        /\ args' = [params |-> params]
        /\ builderCtx' = params.ctx
        /\ IF started.ok
              THEN pc' = "awaitInstruction" /\ out' = [ix |-> started.val]
              ELSE pc' = "returned" /\ out' = started
    /\ op' = "buildOpenDispute"
    /\ UNCHANGED <<tx, log, sim>>

Call_buildResolve ==
    /\ Quiet
    /\ \E params \in BuilderParams :
        LET started == buildResolve(params) IN
        /\ args' = [params |-> params]
        /\ builderCtx' = params.ctx
        /\ IF started.ok
              THEN pc' = "awaitInstruction" /\ out' = [ix |-> started.val]
              ELSE pc' = "returned" /\ out' = started
    /\ op' = "buildResolve"
    /\ UNCHANGED <<tx, log, sim>>

Call_buildRelease ==
    /\ Quiet
    /\ \E params \in BuilderParams :
        LET started == buildRelease(params) IN
        /\ args' = [params |-> params]
        /\ builderCtx' = params.ctx
        /\ IF started.ok
              THEN pc' = "awaitInstruction" /\ out' = [ix |-> started.val]
              ELSE pc' = "returned" /\ out' = started
    /\ op' = "buildRelease"
    /\ UNCHANGED <<tx, log, sim>>

Call_buildRefund ==
    /\ Quiet
    /\ \E params \in BuilderParams :
        LET started == buildRefund(params) IN
        /\ args' = [params |-> params]
        /\ builderCtx' = params.ctx
        /\ IF started.ok
              THEN pc' = "awaitInstruction" /\ out' = [ix |-> started.val]
              ELSE pc' = "returned" /\ out' = started
    /\ op' = "buildRefund"
    /\ UNCHANGED <<tx, log, sim>>

\* while the builder waits the caller sets or clears ctx.feePayer
CallerSetsFeePayer ==
    /\ pc = "awaitInstruction"
    /\ \E p \in {"undefined", "payer", "other"} \ {builderCtx.feePayer} :
        builderCtx' = [builderCtx EXCEPT !.feePayer = p]
    /\ UNCHANGED <<pc, op, args, out, tx, log, sim>>

\* builder.instruction() resolves with ix: the transaction is made
InstructionResolved ==
    /\ pc = "awaitInstruction"
    /\ out' = TransactionWith(out.ix, builderCtx)
    /\ pc' = "returned"
    /\ UNCHANGED <<op, args, tx, log, builderCtx, sim>>

\* builder.instruction() rejects, and so does the builder
InstructionRejected ==
    /\ pc = "awaitInstruction"
    /\ out' = Throw("Account not provided")
    /\ pc' = "returned"
    /\ UNCHANGED <<op, args, tx, log, builderCtx, sim>>

Call_calculateFee ==
    /\ Quiet
    /\ \E amount \in BNAmounts, feeBps \in BpsArgs :
        /\ args' = [amount |-> amount, feeBps |-> feeBps]
        /\ out' = calculateFee(amount, feeBps)
    /\ op' = "calculateFee"
    /\ pc' = "returned"
    /\ UNCHANGED <<tx, log, builderCtx, sim>>

Call_calculateAmountAfterFee ==
    /\ Quiet
    /\ \E amount \in BNAmounts, feeBps \in BpsArgs :
        /\ args' = [amount |-> amount, feeBps |-> feeBps]
        /\ out' = calculateAmountAfterFee(amount, feeBps)
    /\ op' = "calculateAmountAfterFee"
    /\ pc' = "returned"
    /\ UNCHANGED <<tx, log, builderCtx, sim>>

\* the caller takes the outcome and is ready for the next call
Return ==
    /\ pc = "returned"
    /\ pc' = "idle"
    /\ op' = "none"
    /\ args' = <<>>
    /\ out' = <<>>
    /\ tx' = IF sim.pc = "idle" THEN NoTransaction ELSE tx
    /\ log' = <<>>
    /\ builderCtx' = NoContext
    /\ UNCHANGED sim

Next ==
    \/ Call_toBigInt
    \/ Call_applyBps
    \/ Call_splitAmountByBps
    \/ Call_isMultipleOfStep
    \/ Call_formatTokenAmount
    \/ Call_parseTokenAmount
    \/ Call_validateAmount
    \/ Call_validatePublicKey
    \/ Call_validateInitiateParams
    \/ Call_sendAndConfirm
    \/ BlockhashResolved
    \/ SignResolved
    \/ SendResolved
    \/ ConfirmBlockhashResolved
    \/ ConfirmResolved
    \/ AwaitRejected
    \/ Call_simulate
    \/ SimulateBlockhashResolved
    \/ SimulateResolved
    \/ SimulateAwaitRejected
    \/ SimulateReturn
    \/ Call_buildInitiate
    \/ Call_buildFund
    \/ Call_buildSubmitEvidence
    \/ Call_buildOpenDispute
    \/ Call_buildResolve
    \/ Call_buildRelease
    \/ Call_buildRefund
    \/ CallerSetsFeePayer
    \/ InstructionResolved
    \/ InstructionRejected
    \/ Call_calculateFee
    \/ Call_calculateAmountAfterFee
    \/ Return

Spec == Init /\ [][Next]_vars

(***************************************************************************)
(* Vocabulary of the claims, stated apart from the code's own helpers.     *)
(***************************************************************************)
Returned(name) == pc = "returned" /\ op = name

\* a non-negative Amount: a bigint or an integer number >= 0, or a
\* non-empty string of decimal digits
IsAmount(x) ==
    \/ x.t = "bigint" /\ x.v >= 0
    \/ x.t = "number" /\ x.den = 1 /\ x.num >= 0
    \/ x.t = "string" /\ x.s # <<>> /\ AllDigits(x.s)

\* an integer given as a bigint or as an integer number, of either sign, or
\* as a non-empty string of decimal digits
IsInteger(x) ==
    \/ x.t = "bigint"
    \/ x.t = "number" /\ x.den = 1
    \/ x.t = "string" /\ x.s # <<>> /\ AllDigits(x.s)

ValueOf(x) ==
    IF x.t = "bigint" THEN x.v
    ELSE IF x.t = "number" THEN x.num
    ELSE DigitsValue(x.s, 10)

\* BasisPoints: an integer in [0, 10000]
IsBps(b) == b.den = 1 /\ b.num >= 0 /\ b.num <= 10000

\* a number outside [0, 10000]
OutsideBps(b) == b.den # 0 /\ (b.num < 0 \/ b.num > 10000 * b.den)

InsideBps(b) == b.den # 0 /\ b.num >= 0 /\ b.num <= 10000 * b.den

\* text of the form digits or digits.digits
DotCount(s) == Cardinality({i \in 1..Len(s) : s[i] = "."})

DotAt(s) == CHOOSE i \in 1..Len(s) : s[i] = "."

WholeOf(s) == IF DotCount(s) = 0 THEN s ELSE SubSeq(s, 1, DotAt(s) - 1)

FractionOf(s) ==
    IF DotCount(s) = 0 THEN <<>> ELSE SubSeq(s, DotAt(s) + 1, Len(s))

WellFormed(s) ==
    /\ DotCount(s) <= 1
    /\ WholeOf(s) # <<>>
    /\ AllDigits(WholeOf(s))
    /\ AllDigits(FractionOf(s))
    /\ DotCount(s) = 1 => FractionOf(s) # <<>>

\* the fraction f scaled to d digits: padded with zeros, or its first d digits
ScaledFraction(f, d) ==
    IF Len(f) <= d THEN DigitsValue(f, 10) * Pow10(d - Len(f))
    ELSE DigitsValue(SubSeq(f, 1, d), 10)

\* the amount a well-formed text denotes at d decimals
Denoted(s, d) ==
    DigitsValue(WholeOf(s), 10) * Pow10(d) + ScaledFraction(FractionOf(s), d)

\* the one spelling formatTokenAmount uses: no superfluous zero before the
\* whole part, none at the end of the fraction
Canonical(s) ==
    /\ WellFormed(s)
    /\ Len(WholeOf(s)) > 1 => Head(WholeOf(s)) # "0"
    /\ DotCount(s) = 1 => Last(FractionOf(s)) # "0"

(***************************************************************************)
C2_SplitConservesTotal ==
    (Returned("splitAmountByBps") /\ IsAmount(args.total) /\ IsBps(args.buyerBps))
        => /\ out.ok
           /\ out.val.buyer + out.val.seller = ValueOf(args.total)
           /\ Ok(out.val.buyer) = applyBps(args.total, args.buyerBps)
           /\ out.val.seller = ValueOf(args.total) - out.val.buyer

C2_Witness ==
    /\ Returned("splitAmountByBps")
    /\ args.total = BigIntV(7)
    /\ args.buyerBps = IntV(3333)
    /\ out.val = [buyer |-> 2, seller |-> 5]

(***************************************************************************)
(* C3.  For a non-negative amount and integer basis points in [0, 10000],  *)
(* applyBps returns floor(amount * bps / 10000).                           *)
(***************************************************************************)
C3_ApplyBpsIsFloor ==
    (Returned("applyBps") /\ IsAmount(args.amount) /\ IsBps(args.bps))
        => out = Ok((ValueOf(args.amount) * args.bps.num) \div 10000)

C3_Witness ==
    /\ Returned("applyBps")
    /\ args.amount = BigIntV(1000)
    /\ args.bps = IntV(250)
    /\ out = Ok(25)

(***************************************************************************)
(* C4.  applyBps and splitAmountByBps throw the range error for every bps  *)
(* outside [0, 10000], whatever the amount is, and never throw it for a    *)
(* bps inside [0, 10000].                                                  *)
(***************************************************************************)
BpsArg == IF op = "applyBps" THEN args.bps ELSE args.buyerBps

C4_BpsRangeError ==
    (Returned("applyBps") \/ Returned("splitAmountByBps"))
        => /\ OutsideBps(BpsArg)
                => ~out.ok /\ ErrorKind(out.err) = "InvalidBpsRange"
           /\ InsideBps(BpsArg)
                => out.ok \/ ErrorKind(out.err) # "InvalidBpsRange"

C4_Witness ==
    /\ Returned("splitAmountByBps")
    /\ args.total = StringV(<<"x">>)
    /\ args.buyerBps = IntV(10001)
    /\ ~out.ok
    /\ ErrorKind(out.err) = "InvalidBpsRange"

(***************************************************************************)
(* C5.  parseTokenAmount throws a format error for every text that is not  *)
(* digits or digits.digits, and returns no amount for it.                  *)
(***************************************************************************)
C5_MalformedTextRejected ==
    (Returned("parseTokenAmount") /\ args.amount.t = "string"
        /\ ~WellFormed(args.amount.s))
        => ~out.ok /\ ErrorKind(out.err) = "InvalidAmountFormat"

(***************************************************************************)
(* C6.  For well-formed text w or w.f, parseTokenAmount returns            *)
(* w * 10^d + F, F being f padded with zeros to d digits or cut to its     *)
(* first d digits (never rounded), and 0 when there is no fraction.        *)
(***************************************************************************)
C6_ParseValue ==
    (Returned("parseTokenAmount") /\ args.amount.t = "string"
        /\ WellFormed(args.amount.s))
        => out = Ok(Denoted(args.amount.s, args.decimals))

C6_Witness ==
    /\ Returned("parseTokenAmount")
    /\ args.amount = StringV(<<"0", ".", "1", "2", "3", "4", "5", "6", "7">>)
    /\ args.decimals = 6
    /\ out = Ok(123456)

(***************************************************************************)
C8_SameString ==
    (Returned("parseTokenAmount") /\ args.amount.t = "string"
        /\ WellFormed(args.amount.s)
        /\ Len(FractionOf(args.amount.s)) <= args.decimals)
        => /\ out.ok
           /\ formatTokenAmount(out.val, args.decimals) = Ok(args.amount.s)

(***************************************************************************)
(* C8, amended.  Parsing well-formed text with at most d fractional digits *)
(* and formatting the amount at the same d gives text that denotes the     *)
(* same value, in canonical spelling: it is the same string exactly when   *)
(* the text was canonical.                                                 *)
(***************************************************************************)
C8_SameValue ==
    (Returned("parseTokenAmount") /\ args.amount.t = "string"
        /\ WellFormed(args.amount.s)
        /\ Len(FractionOf(args.amount.s)) <= args.decimals)
        => /\ out.ok
           /\ LET back == formatTokenAmount(out.val, args.decimals) IN
              /\ back.ok
              /\ Canonical(back.val)
              /\ Len(FractionOf(back.val)) <= args.decimals
              /\ Denoted(back.val, args.decimals)
                     = Denoted(args.amount.s, args.decimals)
              /\ (back.val = args.amount.s) <=> Canonical(args.amount.s)

C8_Witness ==
    /\ Returned("parseTokenAmount")
    /\ args.amount = StringV(<<"1", ".", "5", "0">>)
    /\ args.decimals = 6
    /\ out = Ok(1500000)
    /\ formatTokenAmount(out.val, 6) = Ok(<<"1", ".", "5">>)

(***************************************************************************)
(* C9.  toBigInt accepts a string only when it is made of decimal digits   *)
(* alone, and returns that integer; every other string (a decimal point,   *)
(* letters, empty or blank text, a sign or a radix prefix) is rejected     *)
(* with a format error.                                                    *)
(***************************************************************************)
C9_OnlyDigitStrings ==
    (Returned("toBigInt") /\ args.value.t = "string")
        => IF args.value.s # <<>> /\ AllDigits(args.value.s)
               THEN out = Ok(DigitsValue(args.value.s, 10))
           ELSE ~out.ok /\ ErrorKind(out.err) = "InvalidAmountFormat"

(***************************************************************************)
(* C10.  For a non-negative amount and an integer step, isMultipleOfStep   *)
(* throws the step error exactly when step <= 0, and otherwise returns     *)
(* whether amount mod step = 0.                                            *)
(***************************************************************************)
C10_MultipleOfStep ==
    (Returned("isMultipleOfStep") /\ IsAmount(args.amount) /\ IsInteger(args.step))
        => IF ValueOf(args.step) <= 0
               THEN ~out.ok /\ ErrorKind(out.err) = "InvalidStep"
           ELSE out = Ok(ValueOf(args.amount) % ValueOf(args.step) = 0)

C10_Witness ==
    /\ Returned("isMultipleOfStep")
    /\ args.amount = IntV(100)
    /\ args.step = IntV(25)
    /\ out = Ok(TRUE)

(***************************************************************************)
(* C11.  Every AmountMath operation (toBigInt, parseTokenAmount,           *)
(* formatTokenAmount, applyBps, splitAmountByBps, isMultipleOfStep) is     *)
(* pure and deterministic: calls with equal arguments give the same        *)
(* outcome, whatever was called in between; every failure is one of        *)
(* InvalidAmountFormat, InvalidBpsRange or InvalidStep; and no call,       *)
(* successful or failing, changes any state or any argument.               *)
(***************************************************************************)
AmountMathOps ==
    {"toBigInt", "parseTokenAmount", "formatTokenAmount", "applyBps",
     "splitAmountByBps", "isMultipleOfStep"}

ErrorKinds == {"InvalidAmountFormat", "InvalidBpsRange", "InvalidStep"}

AmountMathReturned == pc = "returned" /\ op \in AmountMathOps

\* the one outcome an operation has for its arguments
OutcomeOf(name, a) ==
    CASE name = "toBigInt" -> toBigInt(a.value)
      [] name = "parseTokenAmount" -> parseTokenAmount(a.amount, a.decimals)
      [] name = "formatTokenAmount" -> formatTokenAmount(a.lamports, a.decimals)
      [] name = "applyBps" -> applyBps(a.amount, a.bps)
      [] name = "splitAmountByBps" -> splitAmountByBps(a.total, a.buyerBps)
      [] name = "isMultipleOfStep" -> isMultipleOfStep(a.amount, a.step)

\* every failure is of one of the three kinds
FailsWithListedKind ==
    (AmountMathReturned /\ ~out.ok) => ErrorKind(out.err) \in ErrorKinds

\* a call of an operation, from its start to its return
AmountMathCall == pc = "idle" /\ pc' = "returned" /\ op' \in AmountMathOps

\* the outcome of a call is the one its arguments have, whatever the calls
\* before it were, and the call leaves the transaction, the context, the
\* logs and a simulate in flight as they are.  The arguments are values:
\* no operation assigns to a string, a number or a bigint, and none calls
\* a method of BN that writes to the BN it is called on
PureAndDeterministic ==
    AmountMathCall
        => /\ out' = OutcomeOf(op', args')
           /\ UNCHANGED <<tx, log, builderCtx, sim>>

C11_PureWithListedFailures ==
    []FailsWithListedKind /\ [][PureAndDeterministic]_vars

\* C11 but for the kinds of the failures
C11_PureAndDeterministic == [][PureAndDeterministic]_vars

\* a failure of none of the three kinds: applyBps with bps 2.5, inside
\* the range, fails in BigInt(bps) with a RangeError
C11_RangeErrorReached ==
    /\ Returned("applyBps")
    /\ args.amount = BigIntV(1000) /\ args.bps = NumberV(5, 2)
    /\ out = Throw("RangeError")

(***************************************************************************)
(* C12.  validateAmount returns valid exactly when                         *)
(* MIN_DEAL_AMOUNT <= amount <= MAX_DEAL_AMOUNT; every other amount, zero  *)
(* and negatives included, gives valid = false with an error message, and  *)
(* valid = true carries no error.                                          *)
(***************************************************************************)
InDealRange(w) ==
    /\ ~w.neg
    /\ \/ w.hi = 0 /\ w.lo >= 1000000
       \/ w.hi >= 1 /\ w.hi < 1000
       \/ w.hi = 1000 /\ w.lo = 0

C12_ValidateAmount ==
    Returned("validateAmount")
        => /\ out.ok
           /\ out.val.valid <=> InDealRange(args.amount.w)
           /\ out.val.valid => out.val.error = "undefined"
           /\ ~out.val.valid => out.val.error # "undefined"

\* C12 holds of every BN and of every number of magnitude below 2^53
C12_ValidateAmountSafe ==
    (Returned("validateAmount")
        /\ (args.amount.t = "BN" \/ args.amount.w.hi < 9007199))
        => /\ out.ok
           /\ out.val.valid <=> InDealRange(args.amount.w)
           /\ out.val.valid => out.val.error = "undefined"
           /\ ~out.val.valid => out.val.error # "undefined"

\* parseTokenAmount("100") validates
C12_ParsedHundred ==
    /\ Returned("validateAmount")
    /\ args.amount = [t |-> "BN", w |-> WideOfInt(100000000)]
    /\ out = Ok(Valid)

(***************************************************************************)
(* C13.  validateInitiateParams returns valid exactly when validateAmount, *)
(* validateFeeBps, validateDisputeDeadline and validatePublicKey of the    *)
(* seller, buyer, arbiter and mint all return valid and the buyer is not   *)
(* the seller; otherwise it returns the error of the first check that      *)
(* fails, in the order amount, fee, deadline, seller, buyer, arbiter,      *)
(* mint, buyer-equals-seller.                                              *)
(***************************************************************************)
\* the eight checks in their order, each as the outcome of its validator
ChecksOf(p, now) ==
    << validateAmount(p.amount),
       validateFeeBps(p.feeBps),
       validateDisputeDeadline(p.disputeBy, now),
       validatePublicKey(p.seller),
       validatePublicKey(p.buyer),
       validatePublicKey(p.arbiter),
       validatePublicKey(p.mint),
       IF p.buyer.id = p.seller.id
           THEN Ok(Invalid("Buyer and seller must be different"))
       ELSE Ok(Valid) >>

Passes(c) == c.ok /\ c.val.valid

\* the error a check's failure is reported with: a key's carries its name
ReportedError(checks, i) ==
    IF i \in 4..7 THEN KeyNames[i - 3] \o ": " \o checks[i].val.error
    ELSE checks[i].val.error

C13_FirstFailingCheck ==
    Returned("validateInitiateParams")
        => LET checks == ChecksOf(args.params, args.now)
               failing == {i \in 1..8 : ~Passes(checks[i])}
           IN  /\ out.ok
               /\ out.val.valid <=> failing = {}
               /\ failing # {}
                    => LET first == CHOOSE i \in failing :
                                        \A j \in failing : i <= j
                       IN  /\ checks[first].ok
                           /\ out.val.error = ReportedError(checks, first)

\* C13 holds whenever no validator throws before the outcome is decided
C13_FirstFailingCheckNoThrow ==
    (Returned("validateInitiateParams") /\ out.ok)
        => LET checks == ChecksOf(args.params, args.now)
               failing == {i \in 1..8 : ~Passes(checks[i])}
           IN  /\ out.val.valid <=> failing = {}
               /\ failing # {}
                    => LET first == CHOOSE i \in failing :
                                        \A j \in failing : i <= j
                       IN  /\ checks[first].ok
                           /\ out.val.error = ReportedError(checks, first)

(***************************************************************************)
(* C14.  sendAndConfirm: the wallet signs before the transaction is sent;  *)
(* the raw transaction is sent exactly once, before confirmation is        *)
(* awaited; the signature is returned only after confirmTransaction has    *)
(* completed; when a step fails no signature is returned and no later      *)
(* step is performed; a feePayer or recentBlockhash the transaction        *)
(* already had is left as it was.                                          *)
(***************************************************************************)
InSendAndConfirm == op = "sendAndConfirm"

Positions(ev) == {i \in 1..Len(log) : log[i] = ev}

\* every ev2 in the log has an ev1 before it
Precedes(ev1, ev2) ==
    \A i \in Positions(ev2) : \E j \in Positions(ev1) : j < i

\* confirmTransaction has completed: its promise resolved
ConfirmCompleted ==
    {Resolved("confirmTransaction"), ResolvedWithError("confirmTransaction")}

\* the order of the steps, in every state of a call; failures names the
\* ways a step is taken to have failed: "fail", its promise rejected or the
\* call threw, and "err", it resolved reporting that the transaction failed
SendAndConfirmOrder(failures) ==
    InSendAndConfirm
        => /\ Precedes(Resolved("signTransaction"), Called("sendRawTransaction"))
           /\ Cardinality(Positions(Called("sendRawTransaction"))) <= 1
           /\ Precedes(Resolved("sendRawTransaction"), Called("confirmTransaction"))
           /\ (pc = "returned" /\ out.ok)
                => /\ out.val = "sig"
                   /\ log[Len(log)] \in ConfirmCompleted
                   /\ Cardinality(Positions(Called("sendRawTransaction"))) = 1
           /\ \A i \in 1..Len(log) :
                log[i].e \in failures
                    => i = Len(log) /\ pc = "returned" /\ ~out.ok

\* a step of sendAndConfirm
SendAndConfirmStep ==
    \/ Call_sendAndConfirm
    \/ BlockhashResolved
    \/ SignResolved
    \/ SendResolved
    \/ ConfirmBlockhashResolved
    \/ ConfirmResolved
    \/ AwaitRejected

\* no step of sendAndConfirm changes a feePayer or a recentBlockhash the
\* transaction had when it was handed over
KeepsWhatWasSet ==
    SendAndConfirmStep
        => LET handed == args'.tx
               before == IF pc = "idle" THEN handed ELSE tx
           IN  /\ handed.feePayer # "undefined"
                    => tx'.feePayer = before.feePayer
               /\ handed.recentBlockhash # "undefined"
                    => tx'.recentBlockhash = before.recentBlockhash

C14_SendAndConfirmOrder ==
    []SendAndConfirmOrder({"fail", "err"}) /\ [][KeepsWhatWasSet]_vars

\* C14 but for a confirmation that resolves with an error: the order of the
\* steps, no signature and no later step after a rejection, and what was
\* set is kept
C14_OrderWhenRejected ==
    []SendAndConfirmOrder({"fail"}) /\ [][KeepsWhatWasSet]_vars

\* the transaction was sent, its confirmation resolved with an error, and
\* sendAndConfirm returned the signature
C14_FailedYetReturned ==
    /\ InSendAndConfirm /\ pc = "returned" /\ out = Ok("sig")
    /\ log[Len(log)] = ResolvedWithError("confirmTransaction")

\* a transaction that came with its fee payer and blockhash was signed,
\* sent and confirmed, and its signature returned
C14_Witness ==
    /\ InSendAndConfirm /\ pc = "returned" /\ out.ok
    /\ args.tx.feePayer = "payer" /\ args.tx.recentBlockhash = "h0"
    /\ Resolved("confirmTransaction") \in Range(log)

\* the cluster took the transaction and confirmTransaction then rejected
C14_WitnessConfirmFails ==
    /\ InSendAndConfirm /\ pc = "returned" /\ ~out.ok
    /\ Resolved("sendRawTransaction") \in Range(log)
    /\ Rejected("confirmTransaction") \in Range(log)

\* a simulate ran to its end while the sendAndConfirm on the same
\* transaction was waiting for confirmation, and the signature was returned
C14_WitnessInterleaved ==
    /\ InSendAndConfirm /\ pc = "returned" /\ out.ok
    /\ sim.pc = "returned" /\ sim.out.ok
    /\ args.tx.recentBlockhash = "undefined"

\* the wallet signed the transaction in place during the call and then
\* rejected: sendAndConfirm failed and the transaction stays signed
C14_SignedThenRejected ==
    /\ InSendAndConfirm /\ pc = "returned" /\ ~out.ok
    /\ log[Len(log)] = Rejected("signTransaction")
    /\ tx.signed

\* while the wallet's promise was pending a simulate that verifies
\* signatures went through on the transaction, signed during the call
C14_SimulateWhileSigning ==
    /\ InSendAndConfirm /\ pc = "awaitSign"
    /\ sim.pc = "awaitSimulate" /\ sim.args.opts.sigVerify = "true"

(***************************************************************************)
(* C15.  Every public builder resolves its program method by its           *)
(* camelCase name first and, only if that is absent, by the snake_case     *)
(* form of the name; when neither exists it fails with an error and        *)
(* builds nothing; on success it returns a transaction of exactly one      *)
(* instruction, the returned ix, with feePayer set exactly when            *)
(* ctx.feePayer was provided.                                              *)
(***************************************************************************)
\* each builder's method, in camelCase and in snake_case
BuilderMethods ==
    [buildInitiate |-> [camel |-> M_initiate, snake |-> M_initiate],
     buildFund |-> [camel |-> M_fund, snake |-> M_fund],
     buildSubmitEvidence |-> [camel |-> M_submitEvidence, snake |-> M_submit_evidence],
     buildOpenDispute |-> [camel |-> M_openDispute, snake |-> M_open_dispute],
     buildResolve |-> [camel |-> M_resolve, snake |-> M_resolve],
     buildRelease |-> [camel |-> M_release, snake |-> M_release],
     buildRefund |-> [camel |-> M_refund, snake |-> M_refund]]

BuilderReturned == pc = "returned" /\ op \in DOMAIN BuilderMethods

\* the names the program of the call defines
MethodsOf(program) == IF program.hasMethods THEN program.methods ELSE {}

\* the error of a builder whose method the program lacks
NoMethodError(names) ==
    "Program has no method '" \o Join(names.camel) \o "' or '"
        \o Join(names.snake) \o "'. Please adjust builder to match your IDL."

\* the claim but for the fee payer: which method, one instruction
MethodAndInstruction ==
    LET names == BuilderMethods[op]
        methods == MethodsOf(args.params.ctx.program)
    IN  /\ (names.camel \notin methods /\ names.snake \notin methods)
             => out = Throw(NoMethodError(names))
        /\ out.ok
             => /\ names.camel \in methods
                     => out.val.ix.method = names.camel
                /\ names.camel \notin methods
                     => out.val.ix.method = names.snake
                /\ out.val.tx.instructions = <<out.val.ix>>

\* feePayer is set exactly when given, and to what was given
FeePayerAsIn(ctx) ==
    out.ok
        => /\ ctx.feePayer # "undefined" => out.val.tx.feePayer = ctx.feePayer
           /\ ctx.feePayer = "undefined" => out.val.tx.feePayer = "undefined"

\* C15 as stated, ctx.feePayer being what the builder was called with
C15_BuilderResolution ==
    BuilderReturned => MethodAndInstruction /\ FeePayerAsIn(args.params.ctx)

\* C15, amended: method, error and instruction as stated, and feePayer set
\* exactly when ctx.feePayer is set at the moment builder.instruction()
\* resolves, and to that value
C15_FeePayerWhenResolved ==
    BuilderReturned => MethodAndInstruction /\ FeePayerAsIn(builderCtx)

\* a builder called without a fee payer returned a transaction with one
C15_FeePayerSetMeanwhile ==
    /\ Returned("buildSubmitEvidence") /\ out.ok
    /\ args.params.ctx.feePayer = "undefined"
    /\ out.val.tx.feePayer = "payer"

(***************************************************************************)
(* C16.  The BN fee helpers agree with the bigint amount math: for an      *)
(* amount >= 0 and an integer feeBps in [0, 10000], calculateFee is        *)
(* applyBps and calculateAmountAfterFee is the seller share of             *)
(* splitAmountByBps; for feeBps outside [0, 10000] both families reject.   *)
(***************************************************************************)
FeeHelperReturned ==
    pc = "returned" /\ op \in {"calculateFee", "calculateAmountAfterFee"}

\* what the bigint amount math gives for the same amount and bps
AmountMathOf(name, amount, feeBps) ==
    IF name = "calculateFee" THEN applyBps(BigIntV(amount.v), feeBps)
    ELSE LET shares == splitAmountByBps(BigIntV(amount.v), feeBps)
         IN  IF shares.ok THEN Ok(shares.val.seller) ELSE shares

C16_FeeHelpersAgree ==
    (FeeHelperReturned /\ args.amount.v >= 0)
        => LET math == AmountMathOf(op, args.amount, args.feeBps)
           IN  /\ (NumIsInteger(args.feeBps) /\ InsideBps(args.feeBps))
                    => math.ok /\ out.ok /\ out.val.v = math.val
               /\ OutsideBps(args.feeBps)
                    => ~math.ok /\ ~out.ok

\* inside the range the two families do agree
C16_FeeHelpersAgreeInRange ==
    (FeeHelperReturned /\ args.amount.v >= 0
        /\ NumIsInteger(args.feeBps) /\ InsideBps(args.feeBps))
        => LET math == AmountMathOf(op, args.amount, args.feeBps)
           IN  math.ok /\ out.ok /\ out.val.v = math.val

\* a fee of 250 bps taken from 12345 base units
C16_InRangeReached ==
    /\ Returned("calculateAmountAfterFee") /\ out.ok
    /\ args.amount.v = 12345 /\ args.feeBps = IntV(250)
    /\ out.val.v = 12037

(***************************************************************************)
(* C17.  For a total >= 0 and bps in [0, 10000], both shares returned by   *)
(* splitAmountByBps lie in [0, total]; the buyer's share is 0 at bps 0     *)
(* and the whole total at bps 10000, and it does not decrease as bps       *)
(* grows.                                                                  *)
(***************************************************************************)
\* the buyer's share of the same total at another bps
BuyerShareAt(total, b) == splitAmountByBps(total, IntV(b)).val.buyer

C17_SharesWithinTotal ==
    (Returned("splitAmountByBps") /\ IsAmount(args.total) /\ IsBps(args.buyerBps))
        => LET total == ValueOf(args.total)
               bps == args.buyerBps.num
           IN  /\ out.ok
               /\ out.val.buyer \in 0..total
               /\ out.val.seller \in 0..total
               /\ bps = 0 => out.val.buyer = 0
               /\ bps = 10000 => out.val.buyer = total
               /\ \A b \in {x \in BpsValues : x >= 0 /\ x <= 10000} :
                    /\ b <= bps => BuyerShareAt(args.total, b) <= out.val.buyer
                    /\ b >= bps => BuyerShareAt(args.total, b) >= out.val.buyer

\* the whole of 7 base units goes to the buyer at 10000 bps
C17_Witness ==
    /\ Returned("splitAmountByBps")
    /\ args.total = BigIntV(7)
    /\ args.buyerBps = IntV(10000)
    /\ out.val = [buyer |-> 7, seller |-> 0]

\* shares strictly inside the total
C17_WitnessInside ==
    /\ Returned("splitAmountByBps")
    /\ args.total = BigIntV(12345)
    /\ args.buyerBps = IntV(2500)
    /\ out.val = [buyer |-> 3086, seller |-> 9259]

====
